---- MODULE Spec2Model ----
(***************************************************************************)
(* Model of the LLM provider layer of the ai-service:                      *)
(*   app/services/llm_manager.py  (LLMManager: registry, router, adapters, *)
(*                                 tenacity retry wrapper)                 *)
(*   app/core/config.py           (Settings: keys and default models)      *)
(* and of the HTTP endpoints that call it:                                 *)
(*   app/api/v1/chat.py           (chat_completion, summarize_conversation,*)
(*                                 suggest_questions, _build_messages)     *)
(*   app/api/v1/paper_analysis.py (call_llm)                               *)
(*   app/api/v1/writing.py        (analyze_writing)                        *)
(* Strings that the code inspects by prefix (model identifiers) are        *)
(* sequences of one-character strings, so that startswith is computed.     *)
(***************************************************************************)
EXTENDS Integers, Sequences, FiniteSets, TLC

VARIABLES
    settings,          \* the API keys and default models of Settings
    ctor_raises,       \* families whose client constructor raises in __init__
    openai_client,     \* LLMManager.openai_client
    anthropic_client,  \* LLMManager.anthropic_client
    groq_client,       \* LLMManager.groq_client
    pc,                \* position of the generate_completion call
    request,           \* the arguments of the call in progress
    attempt_number,    \* tenacity's retry_state.attempt_number
    frame,             \* locals of the adapter suspended at its network call
    sent,              \* requests received by the providers during this call
    outcomes,          \* what the provider did with each of those requests
    response,          \* the provider's response to the last request
    slept,             \* backoff sleeps made by the retry wrapper in this call
    exc,               \* the exception raised by the attempt that just failed
    result,            \* the value returned to the caller
    raised,            \* the exception delivered to the caller
    peer,              \* a second generate_completion call on the same LLMManager
    observed,          \* the last call of a function that keeps no state
                       \* (is_available, count_tokens, generate_embeddings,
                       \* _build_messages) and what it gave its caller
    log,               \* records the logger received during this call
    http               \* the HTTP request being handled and its response

vars == <<settings, ctor_raises, openai_client, anthropic_client, groq_client,
          pc, request, attempt_number, frame, sent, outcomes, response,
          slept, exc, result, raised, peer, observed, log, http>>

registry == <<settings, ctor_raises, openai_client, anthropic_client, groq_client>>

\* the state of the first call
call == <<pc, request, attempt_number, frame, sent, outcomes, response,
          slept, exc, result, raised, log>>

\* ---------------------------------------------------------------- bounds
\* longest message list handed to generate_completion
MaxMsgs == 3

\* ------------------------------------------------------------- constants
None == "None"

\* None where the variable otherwise holds a record
Absent == [type |-> "NoneType"]

Families == {"openai", "anthropic", "groq"}

\* Settings.OPENAI_MODEL: str = "gpt-4", the value without an override
OPENAI_MODEL == <<"g","p","t","-","4">>

\* Settings.ANTHROPIC_MODEL: str = "claude-3-sonnet-20240229"
ANTHROPIC_MODEL ==
    <<"c","l","a","u","d","e","-","3","-","s","o","n","n","e","t","-",
      "2","0","2","4","0","2","2","9">>

\* Settings.GROQ_MODEL: str = "llama-3.3-70b-versatile"
GROQ_MODEL ==
    <<"l","l","a","m","a","-","3",".","3","-","7","0","b","-",
      "v","e","r","s","a","t","i","l","e">>

\* model identifiers a caller may request: one per known prefix, one that
\* only shares a proper part of a prefix, and one of no known family
Models ==
    { <<"g","p","t","-","4">>,
      <<"o","1","-","m","i","n","i">>,
      <<"c","l","a","u","d","e","-","3">>,
      <<"l","l","a","m","a","3">>,
      <<"m","i","x","t","r","a","l">>,
      <<"g","e","m","m","a","-","7","b">>,
      <<"g","p">>,
      <<"p","a","l","m">> }

Roles == {"system", "user", "assistant"}

\* a message list: the i-th message carries the i-th of pairwise distinct
\* texts (the code never inspects a content)
MessageLists ==
    UNION { { [i \in 1..n |-> [role |-> r[i], content |-> ToString(i)]] : r \in [1..n -> Roles] }
            : n \in 1..MaxMsgs }

\* generate_completion(temperature: float = 0.7), line 54; a temperature is
\* passed through as it is, so it is kept as its literal
default_temperature == "0.7"

\* generate_completion(max_tokens: int = 2000), line 55
default_max_tokens == 2000

\* **kwargs of a call that gives none: a set of <<name, value>> pairs
no_kwargs == {}

\* sampling temperatures a caller may give
Temperatures == {"0.0", default_temperature}

\* max_tokens values a caller may give
MaxTokens == {1, default_max_tokens}

\* extra keyword arguments a caller may give
Kwargs == { no_kwargs, {<<"top_p", "0.9">>}, {<<"top_p", "0.9">>, <<"stop", "END">>} }

\* the message list of the calls whose parameters are varied
ParamMessages ==
    << [role |-> "system", content |-> "1"], [role |-> "user", content |-> "2"] >>

\* token counts a provider may report in response.usage
TokenCounts == {0, 80, 120}

\* longest conversationHistory handed to _build_messages
MaxHistory == 12

\* chat.py, line 265: history[-10:]
history_window == 10

\* ------------------------------------------------------------ exceptions
ValueError(msg) == [type |-> "ValueError", msg |-> msg]

APIError == [type |-> "APIError", msg |-> "provider call failed"]

NoProviders == ValueError("No LLM providers initialized. Please check your API keys.")

ClientNotInitialized(family) == ValueError(<<family, "client not initialized. Check API key.">>)

\* tenacity.RetryError(last_attempt)
RetryError(last) == [type |-> "RetryError", last_attempt |-> last]

\* --------------------------------------------------------------- helpers
\* str.startswith
startswith(s, prefix) ==
    /\ Len(prefix) <= Len(s)
    /\ SubSeq(s, 1, Len(prefix)) = prefix

\* Python truthiness of an optional string / optional client
Truthy(v) == v /= None /\ v /= ""

\* mutant: the first constructor that raises ends __init__ for every family
init_client_all_or_nothing(key, family, raises) ==
    IF Truthy(key) /\ raises = {} THEN family ELSE None

\* one branch of LLMManager.__init__: the client is built when the key is
\* truthy and the constructor does not raise; a raise is logged and swallowed
init_client(key, family, raises) ==
    IF Truthy(key) /\ family \notin raises THEN family ELSE None

\* ---------------------------------------------------------------- router
\* mutant: the "o1" prefix is forgotten
is_openai_model_without_o1(model) ==
    startswith(model, <<"g","p","t">>)

\* generate_completion, line 72: the model names an OpenAI model
is_openai_model(model) ==
    startswith(model, <<"g","p","t">>) \/ startswith(model, <<"o","1">>)

\* line 74
is_anthropic_model(model) ==
    startswith(model, <<"c","l","a","u","d","e">>)

\* line 76
is_groq_model(model) ==
    \/ startswith(model, <<"l","l","a","m","a">>)
    \/ startswith(model, <<"m","i","x","t","r","a","l">>)
    \/ startswith(model, <<"g","e","m","m","a">>)

\* mutant: the fallback forwards the requested identifier
groq_target_model_forwarded(model) == model

\* line 83: target_model of the Groq fallback
groq_target_model(model) ==
    IF startswith(model, <<"l","l","a","m","a">>) \/ startswith(model, <<"m","i","x","t","r","a","l">>)
    THEN model ELSE settings.GROQ_MODEL

\* line 86: target_model of the OpenAI fallback
openai_target_model(model) ==
    IF startswith(model, <<"g","p","t">>) THEN model ELSE settings.OPENAI_MODEL

\* line 89: target_model of the Anthropic fallback
anthropic_target_model(model) ==
    IF startswith(model, <<"c","l","a","u","d","e">>) THEN model ELSE settings.ANTHROPIC_MODEL

\* mutant: a model of no known family is rejected instead of falling back
dispatch_known_only(model, openai, anthropic, groq) ==
    IF is_openai_model(model) /\ Truthy(openai)
    THEN [adapter |-> "openai", model |-> model, fallback |-> FALSE]
    ELSE IF is_anthropic_model(model) /\ Truthy(anthropic)
    THEN [adapter |-> "anthropic", model |-> model, fallback |-> FALSE]
    ELSE IF is_groq_model(model) /\ Truthy(groq)
    THEN [adapter |-> "groq", model |-> model, fallback |-> FALSE]
    ELSE IF ~(is_openai_model(model) \/ is_anthropic_model(model) \/ is_groq_model(model))
    THEN [adapter |-> None, model |-> model, fallback |-> TRUE]
    ELSE IF Truthy(groq)
    THEN [adapter |-> "groq", model |-> groq_target_model(model), fallback |-> TRUE]
    ELSE IF Truthy(openai)
    THEN [adapter |-> "openai", model |-> openai_target_model(model), fallback |-> TRUE]
    ELSE IF Truthy(anthropic)
    THEN [adapter |-> "anthropic", model |-> anthropic_target_model(model), fallback |-> TRUE]
    ELSE [adapter |-> None, model |-> model, fallback |-> TRUE]

\* mutant: the fallback tries OpenAI before Groq
dispatch_openai_first(model, openai, anthropic, groq) ==
    IF is_openai_model(model) /\ Truthy(openai)
    THEN [adapter |-> "openai", model |-> model, fallback |-> FALSE]
    ELSE IF is_anthropic_model(model) /\ Truthy(anthropic)
    THEN [adapter |-> "anthropic", model |-> model, fallback |-> FALSE]
    ELSE IF is_groq_model(model) /\ Truthy(groq)
    THEN [adapter |-> "groq", model |-> model, fallback |-> FALSE]
    ELSE IF Truthy(openai)
    THEN [adapter |-> "openai", model |-> openai_target_model(model), fallback |-> TRUE]
    ELSE IF Truthy(groq)
    THEN [adapter |-> "groq", model |-> groq_target_model(model), fallback |-> TRUE]
    ELSE IF Truthy(anthropic)
    THEN [adapter |-> "anthropic", model |-> anthropic_target_model(model), fallback |-> TRUE]
    ELSE [adapter |-> None, model |-> model, fallback |-> TRUE]

\* the if/elif chain of generate_completion (lines 72-92): the adapter that
\* is called and the model handed to it; adapter None is the ValueError of
\* line 92
dispatch(model, openai, anthropic, groq) ==
    IF is_openai_model(model) /\ Truthy(openai)
    THEN [adapter |-> "openai", model |-> model, fallback |-> FALSE]
    ELSE IF is_anthropic_model(model) /\ Truthy(anthropic)
    THEN [adapter |-> "anthropic", model |-> model, fallback |-> FALSE]
    ELSE IF is_groq_model(model) /\ Truthy(groq)
    THEN [adapter |-> "groq", model |-> model, fallback |-> FALSE]
    ELSE IF Truthy(groq)
    THEN [adapter |-> "groq", model |-> groq_target_model(model), fallback |-> TRUE]
    ELSE IF Truthy(openai)
    THEN [adapter |-> "openai", model |-> openai_target_model(model), fallback |-> TRUE]
    ELSE IF Truthy(anthropic)
    THEN [adapter |-> "anthropic", model |-> anthropic_target_model(model), fallback |-> TRUE]
    ELSE [adapter |-> None, model |-> model, fallback |-> TRUE]

\* -------------------------------------------------------------- adapters
\* the client field an adapter uses
client_of(adapter) ==
    CASE adapter = "openai" -> openai_client
      [] adapter = "anthropic" -> anthropic_client
      [] adapter = "groq" -> groq_client

\* the for loop of _generate_anthropic (lines 145-155), from message i on
RECURSIVE convert_loop(_, _, _, _)
convert_loop(messages, i, system_message, anthropic_messages) ==
    IF i > Len(messages)
    THEN [system |-> system_message, messages |-> anthropic_messages]
    ELSE IF messages[i].role = "system"
    THEN convert_loop(messages, i + 1, messages[i].content, anthropic_messages)
    ELSE convert_loop(messages, i + 1, system_message,
                      Append(anthropic_messages,
                             [role |-> messages[i].role, content |-> messages[i].content]))

\* mutant: the else is lost, every message is appended to the turn list
RECURSIVE convert_loop_no_else(_, _, _, _)
convert_loop_no_else(messages, i, system_message, anthropic_messages) ==
    IF i > Len(messages)
    THEN [system |-> system_message, messages |-> anthropic_messages]
    ELSE convert_loop_no_else(messages, i + 1,
             IF messages[i].role = "system" THEN messages[i].content ELSE system_message,
             Append(anthropic_messages,
                    [role |-> messages[i].role, content |-> messages[i].content]))

convert_messages_no_else(messages) == convert_loop_no_else(messages, 1, None, <<>>)

\* mutant: system_message is set only while it is still None
RECURSIVE convert_loop_first(_, _, _, _)
convert_loop_first(messages, i, system_message, anthropic_messages) ==
    IF i > Len(messages)
    THEN [system |-> system_message, messages |-> anthropic_messages]
    ELSE IF messages[i].role = "system"
    THEN convert_loop_first(messages, i + 1,
             IF system_message = None THEN messages[i].content ELSE system_message,
             anthropic_messages)
    ELSE convert_loop_first(messages, i + 1, system_message,
                            Append(anthropic_messages,
                                   [role |-> messages[i].role, content |-> messages[i].content]))

convert_messages_first(messages) == convert_loop_first(messages, 1, None, <<>>)

\* lines 145-155: system_message and anthropic_messages after the loop
convert_messages(messages) == convert_loop(messages, 1, None, <<>>)

\* the request an adapter hands to its client: openai and groq pass
\* **kwargs on (lines 111-117, 190-196), anthropic names five arguments and
\* no **kwargs (lines 157-163)
payload(adapter, model, messages, temperature, max_tokens, kwargs) ==
    IF adapter = "anthropic"
    THEN [provider |-> "anthropic", model |-> model,
          max_tokens |-> max_tokens, temperature |-> temperature,
          system |-> convert_messages(messages).system,
          messages |-> convert_messages(messages).messages]
    ELSE [provider |-> adapter, model |-> model, messages |-> messages,
          temperature |-> temperature, max_tokens |-> max_tokens,
          kwargs |-> kwargs]

\* completion texts a provider may produce: prose, a numbered list, a JSON
\* array of strings, a JSON array of objects
Contents ==
    { "text",
      "Questions:\n1. Why does it scale?\n  2) What is missing?\nnone 7",
      "[\"Shorten the abstract\"]",
      "[{\"title\": \"Agreement\", \"description\": \"Verb form\", \"category\": \"grammar\", \"severity\": \"error\"}]" }

\* what a provider's client may return
Responses(adapter) ==
    IF adapter = "anthropic"
    THEN { [content |-> c, stop_reason |-> "end_turn",
            usage |-> [input_tokens |-> i, output_tokens |-> o]]
           : c \in Contents, i \in TokenCounts, o \in TokenCounts }
    ELSE { [content |-> c, finish_reason |-> "stop",
            usage |-> [total_tokens |-> t]] : c \in Contents, t \in TokenCounts }

\* the responses whose text is prose
PlainResponses ==
    { resp \in Responses("openai") \cup Responses("anthropic") : resp.content = "text" }

\* mutant: the result reports the configured model, not the one that was sent
openai_result_configured_model(model, resp) ==
    [content |-> resp.content, tokens |-> resp.usage.total_tokens,
     finish_reason |-> resp.finish_reason, model |-> OPENAI_MODEL, provider |-> "openai"]

\* lines 119-125
openai_result(model, resp) ==
    [content |-> resp.content, tokens |-> resp.usage.total_tokens,
     finish_reason |-> resp.finish_reason, model |-> model, provider |-> "openai"]

\* mutant: only the output tokens are counted
anthropic_result_output_only(model, resp) ==
    [content |-> resp.content,
     tokens |-> resp.usage.output_tokens,
     finish_reason |-> resp.stop_reason, model |-> model, provider |-> "anthropic"]

\* lines 165-171
anthropic_result(model, resp) ==
    [content |-> resp.content,
     tokens |-> resp.usage.input_tokens + resp.usage.output_tokens,
     finish_reason |-> resp.stop_reason, model |-> model, provider |-> "anthropic"]

\* mutant: the result dict copied from _generate_openai keeps its provider tag
groq_result_mislabelled(model, resp) ==
    [content |-> resp.content, tokens |-> resp.usage.total_tokens,
     finish_reason |-> resp.finish_reason, model |-> model, provider |-> "openai"]

\* lines 198-204
groq_result(model, resp) ==
    [content |-> resp.content, tokens |-> resp.usage.total_tokens,
     finish_reason |-> resp.finish_reason, model |-> model, provider |-> "groq"]

adapter_result(adapter, model, resp) ==
    CASE adapter = "openai" -> openai_result(model, resp)
      [] adapter = "anthropic" -> anthropic_result(model, resp)
      [] adapter = "groq" -> groq_result(model, resp)

\* ---------------------------------------------------------- retry wrapper
\* stop_after_attempt(3), line 47
max_attempt_number == 3

\* wait_exponential(multiplier=1, min=4, max=10), line 48
wait_multiplier == 1
wait_min == 4
wait_max == 10

Max(a, b) == IF a >= b THEN a ELSE b
Min(a, b) == IF a <= b THEN a ELSE b

\* mutant: the wrapper gives up one attempt early
stop_after_attempt_early(n) == n >= max_attempt_number - 1

\* mutant: the comparison is strict, a fourth attempt is made
stop_after_attempt_strict(n) == n > max_attempt_number

\* tenacity stop_after_attempt.__call__
stop_after_attempt(n) == n >= max_attempt_number

\* mutant: the wait starts at min and doubles from there
wait_exponential_doubling(n) ==
    Min(wait_min * 2 ^ (n - 1), wait_max)

\* tenacity wait_exponential.__call__:
\*   exp = 2 ** (attempt_number - 1); result = multiplier * exp
\*   max(max(0, min), min(result, max))
wait_exponential(n) ==
    Max(Max(0, wait_min), Min(wait_multiplier * 2 ^ (n - 1), wait_max))

\* what the wrapper raises once stop says so: @retry is given no
\* reraise=True, so tenacity raises RetryError from the last exception
retry_error(last) == RetryError(last)

\* logger.info of line 80; mentions holds the model identifiers that the
\* f-string interpolates into the message
fallback_record(model) ==
    [level |-> "INFO",
     message |-> "Model {model} requested but provider not available or unknown. Falling back to available provider.",
     mentions |-> {model}]

\* logger.error of lines 128, 174, 207
adapter_error_record(adapter, e) ==
    [level |-> "ERROR", message |-> <<adapter, "API error: {e}">>, error |-> e]

\* logger.error of line 95
generation_error_record(e) ==
    [level |-> "ERROR", message |-> "LLM generation error: {e}", error |-> e]

\* a call that has not started: no arguments, no attempt, no outcome
idle_call ==
    [pc |-> "idle", request |-> Absent, attempt_number |-> 0, frame |-> Absent,
     exc |-> Absent, result |-> Absent, raised |-> Absent]

\* no HTTP request is being handled
idle_http ==
    [handler |-> None, pc |-> "idle", request |-> Absent, step |-> 0,
     completion |-> Absent, suggestions |-> Absent, response |-> Absent]

\* ------------------------------------------------------------------ Init
\* Settings() with the API keys some environment gives and the models of
\* the class defaults
DefaultSettings ==
    [OPENAI_API_KEY : {None, "sk-openai"},
     ANTHROPIC_API_KEY : {None, "sk-ant"},
     GROQ_API_KEY : {"", "gsk"},
     OPENAI_MODEL : {OPENAI_MODEL},
     ANTHROPIC_MODEL : {ANTHROPIC_MODEL},
     GROQ_MODEL : {GROQ_MODEL}]

\* the state after LLMManager() has run __init__ under the settings
Constructed ==
    /\ ctor_raises \in SUBSET Families
    /\ "openai" \in ctor_raises => Truthy(settings.OPENAI_API_KEY)
    /\ "anthropic" \in ctor_raises => Truthy(settings.ANTHROPIC_API_KEY)
    /\ "groq" \in ctor_raises => Truthy(settings.GROQ_API_KEY)
    /\ openai_client = init_client(settings.OPENAI_API_KEY, "openai", ctor_raises)
    /\ anthropic_client = init_client(settings.ANTHROPIC_API_KEY, "anthropic", ctor_raises)
    /\ groq_client = init_client(settings.GROQ_API_KEY, "groq", ctor_raises)
    /\ pc = "idle"
    /\ request = Absent
    /\ attempt_number = 0
    /\ frame = Absent
    /\ sent = <<>>
    /\ outcomes = <<>>
    /\ response = Absent
    /\ slept = <<>>
    /\ exc = Absent
    /\ result = Absent
    /\ raised = Absent
    /\ peer = idle_call
    /\ observed = Absent
    /\ log = <<>>
    /\ http = idle_http

Init == settings \in DefaultSettings /\ Constructed

\* --------------------------------------------------------------- actions
\* a caller awaits generate_completion(messages, model, temperature,
\* max_tokens, **kwargs): tenacity starts the first attempt
generate_completion(model, messages, temperature, max_tokens, kwargs) ==
    /\ pc = "idle"
    /\ pc' = "body"
    /\ request' = [model |-> model, messages |-> messages,
                   temperature |-> temperature, max_tokens |-> max_tokens,
                   kwargs |-> kwargs]
    /\ attempt_number' = 1
    /\ UNCHANGED <<registry, frame, sent, outcomes, response, slept, exc, result, raised, peer, observed, log>>

\* a caller other than an HTTP handler makes the call
Invoke(model, messages, temperature, max_tokens, kwargs) ==
    /\ generate_completion(model, messages, temperature, max_tokens, kwargs)
    /\ UNCHANGED http

\* mutant: an attempt after the first skips the native family and goes to
\* the fallback chain with an empty model name
Body_retry_elsewhere ==
    /\ pc = "body"
    /\ LET d == dispatch(IF attempt_number = 1 THEN request.model ELSE <<>>,
                         openai_client, anthropic_client, groq_client) IN
       IF d.adapter = None
       THEN /\ exc' = NoProviders
            /\ pc' = "attempt_failed"
            /\ log' = log \o <<fallback_record(request.model),
                               generation_error_record(NoProviders)>>
            /\ UNCHANGED <<frame, sent>>
       ELSE /\ frame' = [adapter |-> d.adapter, model |-> d.model]
            /\ sent' = Append(sent, payload(d.adapter, d.model, request.messages,
                                            request.temperature, request.max_tokens,
                                            request.kwargs))
            /\ pc' = "awaiting"
            /\ exc' = Absent
            /\ log' = IF d.fallback THEN Append(log, fallback_record(request.model)) ELSE log
    /\ UNCHANGED <<registry, request, attempt_number, outcomes, response, slept, result, raised, peer, observed, http>>

\* one attempt runs the body of generate_completion up to its first
\* suspension: the router picks the adapter, the adapter checks its client,
\* shapes the request and awaits the provider; a ValueError raised on the
\* way passes the two except/raise blocks unchanged and ends the attempt
Body ==
    /\ pc = "body"
    /\ LET d == dispatch(request.model, openai_client, anthropic_client, groq_client) IN
       IF d.adapter = None
       THEN /\ exc' = NoProviders
            /\ pc' = "attempt_failed"
            /\ log' = log \o <<fallback_record(request.model),
                               generation_error_record(NoProviders)>>
            /\ UNCHANGED <<frame, sent>>
       ELSE IF ~Truthy(client_of(d.adapter))
       THEN /\ exc' = ClientNotInitialized(d.adapter)
            /\ pc' = "attempt_failed"
            /\ log' = (IF d.fallback THEN Append(log, fallback_record(request.model)) ELSE log)
                          \o <<generation_error_record(ClientNotInitialized(d.adapter))>>
            /\ UNCHANGED <<frame, sent>>
       ELSE /\ frame' = [adapter |-> d.adapter, model |-> d.model]
            /\ sent' = Append(sent, payload(d.adapter, d.model, request.messages,
                                            request.temperature, request.max_tokens,
                                            request.kwargs))
            /\ pc' = "awaiting"
            /\ exc' = Absent
            /\ log' = IF d.fallback THEN Append(log, fallback_record(request.model)) ELSE log
    /\ UNCHANGED <<registry, request, attempt_number, outcomes, response, slept, result, raised, peer, observed, http>>

\* the provider answers: the adapter builds the result dict and returns it
\* through generate_completion and the retry wrapper to the caller
ProviderResponds(resp) ==
    /\ pc = "awaiting"
    /\ resp \in Responses(frame.adapter)
    /\ response' = resp
    /\ outcomes' = Append(outcomes, "ok")
    /\ result' = adapter_result(frame.adapter, frame.model, resp)
    /\ pc' = "returned"
    /\ UNCHANGED <<registry, request, attempt_number, frame, sent, slept, exc, raised, peer, observed, log, http>>

\* mutant: a provider whose call failed is taken out of the registry
ProviderFails_drops_client ==
    /\ pc = "awaiting"
    /\ outcomes' = Append(outcomes, "error")
    /\ exc' = APIError
    /\ pc' = "attempt_failed"
    /\ openai_client' = IF frame.adapter = "openai" THEN None ELSE openai_client
    /\ anthropic_client' = IF frame.adapter = "anthropic" THEN None ELSE anthropic_client
    /\ groq_client' = IF frame.adapter = "groq" THEN None ELSE groq_client
    /\ log' = log \o <<adapter_error_record(frame.adapter, APIError),
                        generation_error_record(APIError)>>
    /\ UNCHANGED <<settings, ctor_raises, request, attempt_number, frame, sent, response,
                   slept, result, raised, peer, observed, http>>

\* the provider call raises: the adapter and generate_completion log and
\* re-raise it, which ends the attempt
ProviderFails ==
    /\ pc = "awaiting"
    /\ outcomes' = Append(outcomes, "error")
    /\ exc' = APIError
    /\ pc' = "attempt_failed"
    /\ log' = log \o <<adapter_error_record(frame.adapter, APIError),
                        generation_error_record(APIError)>>
    /\ UNCHANGED <<registry, request, attempt_number, frame, sent, response, slept, result, raised, peer, observed, http>>

\* mutant: the next attempt starts at once, without the backoff sleep
RetryIter_no_sleep ==
    /\ pc = "attempt_failed"
    /\ IF stop_after_attempt(attempt_number)
       THEN /\ raised' = retry_error(exc)
            /\ pc' = "raised"
            /\ UNCHANGED attempt_number
       ELSE /\ attempt_number' = attempt_number + 1
            /\ pc' = "body"
            /\ UNCHANGED raised
    /\ UNCHANGED <<registry, request, frame, sent, outcomes, response, slept, exc, result, peer, observed, log, http>>

\* mutant: the wrapper sleeps after every failed attempt, the last included
RetryIter_sleep_before_raise ==
    /\ pc = "attempt_failed"
    /\ slept' = Append(slept, wait_exponential(attempt_number))
    /\ IF stop_after_attempt(attempt_number)
       THEN /\ raised' = retry_error(exc)
            /\ pc' = "raised"
       ELSE /\ pc' = "sleeping"
            /\ UNCHANGED raised
    /\ UNCHANGED <<registry, request, attempt_number, frame, sent, outcomes, response, exc, result, peer, observed, log, http>>

\* mutant: retry=retry_if_not_exception_type(ValueError), a configuration
\* error ends the call at once
RetryIter_config_not_retried ==
    /\ pc = "attempt_failed"
    /\ IF stop_after_attempt(attempt_number) \/ exc.type = "ValueError"
       THEN /\ raised' = retry_error(exc)
            /\ pc' = "raised"
            /\ UNCHANGED slept
       ELSE /\ slept' = Append(slept, wait_exponential(attempt_number))
            /\ pc' = "sleeping"
            /\ UNCHANGED raised
    /\ UNCHANGED <<registry, request, attempt_number, frame, sent, outcomes, response, exc, result, peer, observed, log, http>>

\* tenacity after a failed attempt: stop and raise, or sleep
RetryIter ==
    /\ pc = "attempt_failed"
    /\ IF stop_after_attempt(attempt_number)
       THEN /\ raised' = retry_error(exc)
            /\ pc' = "raised"
            /\ UNCHANGED slept
       ELSE /\ slept' = Append(slept, wait_exponential(attempt_number))
            /\ pc' = "sleeping"
            /\ UNCHANGED raised
    /\ UNCHANGED <<registry, request, attempt_number, frame, sent, outcomes, response, exc, result, peer, observed, log, http>>

\* the backoff sleep is over: tenacity starts the next attempt
Wake ==
    /\ pc = "sleeping"
    /\ attempt_number' = attempt_number + 1
    /\ pc' = "body"
    /\ UNCHANGED <<registry, request, frame, sent, outcomes, response, slept, exc, result, raised, peer, observed, log, http>>

\* the await of generate_completion completes in the caller, with the
\* returned dict or with the raised exception; the call is over
await_done ==
    /\ pc \in {"returned", "raised"}
    /\ pc' = "idle"
    /\ request' = Absent
    /\ attempt_number' = 0
    /\ frame' = Absent
    /\ sent' = <<>>
    /\ outcomes' = <<>>
    /\ response' = Absent
    /\ slept' = <<>>
    /\ exc' = Absent
    /\ result' = Absent
    /\ raised' = Absent
    /\ log' = <<>>
    /\ UNCHANGED <<registry, peer, observed>>

\* the caller is not an HTTP handler
Complete ==
    /\ await_done
    /\ UNCHANGED http

\* ------------------------------------------------------ queries, embeddings
\* provider names a caller may ask is_available about
ProviderNames == Families \cup {"mistral", ""}

\* texts handed to count_tokens
Texts ==
    { <<>>, <<"a","b","c">>, <<"a","b","c","d">>,
      <<"a","b","c","d","e","f","g","h","i">> }

\* mutant: a name that is none of the three is answered like the default
\* argument "openai"
is_available_default(provider) ==
    IF provider = "anthropic" THEN anthropic_client /= None
    ELSE IF provider = "groq" THEN groq_client /= None
    ELSE openai_client /= None

\* LLMManager.is_available, lines 268-274
is_available(provider) ==
    IF provider = "openai" THEN openai_client /= None
    ELSE IF provider = "anthropic" THEN anthropic_client /= None
    ELSE IF provider = "groq" THEN groq_client /= None
    ELSE FALSE

\* LLMManager.count_tokens, line 290: len(text) // 4
count_tokens(text) == Len(text) \div 4

\* a caller asks is_available(provider)
IsAvailable(provider) ==
    /\ observed' = [op |-> "is_available", provider |-> provider,
                    returned |-> is_available(provider)]
    /\ UNCHANGED <<registry, call, peer, http>>

\* a caller awaits count_tokens(text)
CountTokens(text) ==
    /\ observed' = [op |-> "count_tokens", text |-> text,
                    returned |-> count_tokens(text)]
    /\ UNCHANGED <<registry, call, peer, http>>

\* a caller awaits generate_embeddings(texts): without an OpenAI client it
\* raises ValueError (lines 225-226), else the embeddings call returns the
\* vectors or raises (lines 228-238)
GenerateEmbeddings ==
    /\ IF ~Truthy(openai_client)
       THEN observed' = [op |-> "generate_embeddings",
                         raised |-> ClientNotInitialized("openai")]
       ELSE \/ observed' = [op |-> "generate_embeddings", returned |-> "embeddings"]
            \/ observed' = [op |-> "generate_embeddings", raised |-> APIError]
    /\ UNCHANGED <<registry, call, peer, http>>

\* ------------------------------------------------------------ second call
\* the same code as Invoke .. Complete, run by a second caller on the same
\* LLMManager; the two calls interleave at their awaits
PeerInvoke(model) ==
    /\ peer.pc = "idle"
    /\ peer' = [peer EXCEPT
                   !.pc = "body",
                   !.request = [model |-> model, messages |-> ParamMessages,
                                temperature |-> default_temperature,
                                max_tokens |-> default_max_tokens,
                                kwargs |-> no_kwargs],
                   !.attempt_number = 1]
    /\ UNCHANGED <<registry, call, observed, http>>

PeerBody ==
    /\ peer.pc = "body"
    /\ LET d == dispatch(peer.request.model, openai_client, anthropic_client, groq_client) IN
       IF d.adapter = None
       THEN peer' = [peer EXCEPT !.exc = NoProviders, !.pc = "attempt_failed"]
       ELSE IF ~Truthy(client_of(d.adapter))
       THEN peer' = [peer EXCEPT !.exc = ClientNotInitialized(d.adapter),
                                 !.pc = "attempt_failed"]
       ELSE peer' = [peer EXCEPT !.frame = [adapter |-> d.adapter, model |-> d.model],
                                 !.pc = "awaiting",
                                 !.exc = Absent]
    /\ UNCHANGED <<registry, call, observed, http>>

PeerResponds(resp) ==
    /\ peer.pc = "awaiting"
    /\ resp \in Responses(peer.frame.adapter)
    /\ peer' = [peer EXCEPT
                   !.result = adapter_result(peer.frame.adapter, peer.frame.model, resp),
                   !.pc = "returned"]
    /\ UNCHANGED <<registry, call, observed, http>>

PeerFails ==
    /\ peer.pc = "awaiting"
    /\ peer' = [peer EXCEPT !.exc = APIError, !.pc = "attempt_failed"]
    /\ UNCHANGED <<registry, call, observed, http>>

PeerRetryIter ==
    /\ peer.pc = "attempt_failed"
    /\ IF stop_after_attempt(peer.attempt_number)
       THEN peer' = [peer EXCEPT !.raised = retry_error(peer.exc), !.pc = "raised"]
       ELSE peer' = [peer EXCEPT !.pc = "sleeping"]
    /\ UNCHANGED <<registry, call, observed, http>>

PeerWake ==
    /\ peer.pc = "sleeping"
    /\ peer' = [peer EXCEPT !.attempt_number = peer.attempt_number + 1, !.pc = "body"]
    /\ UNCHANGED <<registry, call, observed, http>>

PeerComplete ==
    /\ peer.pc \in {"returned", "raised"}
    /\ peer' = idle_call
    /\ UNCHANGED <<registry, call, observed, http>>

\* ----------------------------------------------------- direct adapter calls
\* mutant: the guard copied from _generate_openai still tests openai_client
AdapterCall_openai_guard(adapter, model, messages) ==
    /\ pc = "idle"
    /\ request' = [adapter |-> adapter, model |-> model, messages |-> messages,
                   temperature |-> default_temperature,
                   max_tokens |-> default_max_tokens, kwargs |-> no_kwargs]
    /\ IF ~Truthy(openai_client)
       THEN /\ raised' = ClientNotInitialized(adapter)
            /\ pc' = "raised"
            /\ UNCHANGED <<frame, sent>>
       ELSE /\ frame' = [adapter |-> adapter, model |-> model]
            /\ sent' = Append(sent, payload(adapter, model, messages, default_temperature,
                                            default_max_tokens, no_kwargs))
            /\ pc' = "adapter_awaiting"
            /\ UNCHANGED raised
    /\ UNCHANGED <<registry, attempt_number, outcomes, response, slept, exc, result, peer, observed, log, http>>

\* a caller awaits _generate_openai, _generate_anthropic or _generate_groq
\* itself, without the router and without the retry wrapper: the adapter
\* tests its client (lines 107, 140, 186), raises ValueError when it is
\* missing, and otherwise shapes the request and awaits the provider
AdapterCall(adapter, model, messages) ==
    /\ pc = "idle"
    /\ request' = [adapter |-> adapter, model |-> model, messages |-> messages,
                   temperature |-> default_temperature,
                   max_tokens |-> default_max_tokens, kwargs |-> no_kwargs]
    /\ IF ~Truthy(client_of(adapter))
       THEN /\ raised' = ClientNotInitialized(adapter)
            /\ pc' = "raised"
            /\ UNCHANGED <<frame, sent>>
       ELSE /\ frame' = [adapter |-> adapter, model |-> model]
            /\ sent' = Append(sent, payload(adapter, model, messages, default_temperature,
                                            default_max_tokens, no_kwargs))
            /\ pc' = "adapter_awaiting"
            /\ UNCHANGED raised
    /\ UNCHANGED <<registry, attempt_number, outcomes, response, slept, exc, result, peer, observed, log, http>>

\* the provider answers the adapter, which returns its result dict
AdapterResponds(resp) ==
    /\ pc = "adapter_awaiting"
    /\ resp \in Responses(frame.adapter)
    /\ response' = resp
    /\ outcomes' = Append(outcomes, "ok")
    /\ result' = adapter_result(frame.adapter, frame.model, resp)
    /\ pc' = "returned"
    /\ UNCHANGED <<registry, request, attempt_number, frame, sent, slept, exc, raised, peer, observed, log, http>>

\* the provider call raises: the adapter logs the error and re-raises it to
\* its caller (lines 127-129, 173-175, 206-208)
AdapterRaises ==
    /\ pc = "adapter_awaiting"
    /\ outcomes' = Append(outcomes, "error")
    /\ log' = Append(log, adapter_error_record(frame.adapter, APIError))
    /\ raised' = APIError
    /\ pc' = "raised"
    /\ UNCHANGED <<registry, request, attempt_number, frame, sent, response, slept, exc, result, peer, observed, http>>

\* adapters called directly, under every registry
NextAdapter ==
    \/ \E adapter \in Families, model \in Models : AdapterCall(adapter, model, ParamMessages)
    \/ \E resp \in PlainResponses : AdapterResponds(resp)
    \/ AdapterRaises
    \/ Complete

SpecAdapter == Init /\ [][NextAdapter]_vars

\* ------------------------------------------------------------------ chat.py
\* seq[-n:]
last_n(seq, n) ==
    IF Len(seq) <= n THEN seq ELSE SubSeq(seq, Len(seq) - n + 1, Len(seq))

\* seq[:n]
first_n(seq, n) ==
    IF Len(seq) <= n THEN seq ELSE SubSeq(seq, 1, n)

\* dict.get(key, default)
get(dict, key, default) ==
    IF key \in DOMAIN dict THEN dict[key] ELSE default

\* sep.join(parts)
RECURSIVE join(_, _)
join(sep, parts) ==
    IF parts = <<>> THEN ""
    ELSE IF Len(parts) = 1 THEN parts[1]
    ELSE parts[1] \o sep \o join(sep, Tail(parts))

\* papers of a chat context: dicts that may lack any key
Papers ==
    { <<>>,
      << [title |-> "Attention", authors |-> "Vaswani", abstract |-> "We propose",
          keywords |-> <<"nlp", "attention">>] >>,
      << [title |-> "Attention"], [authors |-> "Ho"] >> }

\* paper.get('abstract', '')[:500] and paper.get('keywords', [])[:5],
\* lines 227-228
abstract_limit == 500
keywords_limit == 5

\* _build_paper_context, lines 216-237
_build_paper_context(papers) ==
    IF papers = <<>> THEN "No papers in context."
    ELSE join("\n",
              [i \in 1..Len(papers) |->
                  "\nPaper " \o ToString(i) \o ": " \o get(papers[i], "title", "Untitled")
                  \o "\nAuthors: " \o get(papers[i], "authors", "Unknown authors")
                  \o "\nKeywords: " \o join(", ", first_n(get(papers[i], "keywords", <<>>), keywords_limit))
                  \o "\nAbstract: " \o first_n(get(papers[i], "abstract", ""), abstract_limit)
                  \o "...\n"])

\* the f-string of lines 248-260
chat_system_prompt(paper_context) ==
    "You are Synthia, an AI research assistant specializing in academic literature analysis.\nPapers in this session:\n"
    \o paper_context \o "\n\nGuidelines: ..."

\* a chat.Message: role, content and an optional timestamp
Message(role, content) == [role |-> role, content |-> content, timestamp |-> None]

\* conversation histories of 0 .. MaxHistory messages: user and assistant
\* take turns, and at most one position holds a system-role message
Histories ==
    { [i \in 1..n |-> Message(IF i = s THEN "system"
                              ELSE IF i % 2 = 1 THEN "user" ELSE "assistant",
                              ToString(i))]
      : n \in 0..MaxHistory, s \in 0..MaxHistory }

UserMessages == {"What is the main finding?", "1"}

\* mutant: the window is taken from the start of the history
_build_messages_first_ten(user_message, history, paper_context) ==
    <<[role |-> "system", content |-> chat_system_prompt(paper_context)]>>
    \o [i \in 1..Len(first_n(history, history_window)) |->
            [role |-> first_n(history, history_window)[i].role,
             content |-> first_n(history, history_window)[i].content]]
    \o <<[role |-> "user", content |-> user_message]>>

\* _build_messages, lines 240-277
_build_messages(user_message, history, paper_context) ==
    <<[role |-> "system", content |-> chat_system_prompt(paper_context)]>>
    \o [i \in 1..Len(last_n(history, history_window)) |->
            [role |-> last_n(history, history_window)[i].role,
             content |-> last_n(history, history_window)[i].content]]
    \o <<[role |-> "user", content |-> user_message]>>

\* a caller evaluates _build_messages(user_message, history, paper_context)
BuildMessages(user_message, history, paper_context) ==
    /\ observed = Absent
    /\ observed' = [op |-> "_build_messages", user_message |-> user_message,
                    history |-> history, paper_context |-> paper_context,
                    returned |-> _build_messages(user_message, history, paper_context)]
    /\ UNCHANGED <<registry, call, peer, http>>

\* the caller drops the value it was given
Discard ==
    /\ observed /= Absent
    /\ observed' = Absent
    /\ UNCHANGED <<registry, call, peer, http>>

\* _build_messages applied to every history, user message and paper context
NextBuild ==
    \/ \E user_message \in UserMessages, history \in Histories, papers \in Papers :
          BuildMessages(user_message, history, _build_paper_context(papers))
    \/ Discard

SpecBuild == Init /\ [][NextBuild]_vars

\* calls that leave temperature, max_tokens and **kwargs at their defaults
Next ==
    \/ \E model \in Models, messages \in MessageLists :
          Invoke(model, messages, default_temperature, default_max_tokens, no_kwargs)
    \/ Body
    \/ \E resp \in PlainResponses : ProviderResponds(resp)
    \/ ProviderFails
    \/ RetryIter
    \/ Wake
    \/ Complete

Spec == Init /\ [][Next]_vars

\* calls over all parameter values, on one message list
NextParams ==
    \/ \E model \in Models, temperature \in Temperatures,
          max_tokens \in MaxTokens, kwargs \in Kwargs :
          Invoke(model, ParamMessages, temperature, max_tokens, kwargs)
    \/ Body
    \/ \E resp \in PlainResponses : ProviderResponds(resp)
    \/ ProviderFails
    \/ RetryIter
    \/ Wake
    \/ Complete

\* a single call and is_available queries at any moment of it
NextQuery ==
    \/ \E model \in Models :
          Invoke(model, ParamMessages, default_temperature, default_max_tokens, no_kwargs)
    \/ Body
    \/ \E resp \in PlainResponses : ProviderResponds(resp)
    \/ ProviderFails
    \/ RetryIter
    \/ Wake
    \/ Complete
    \/ \E provider \in ProviderNames : IsAvailable(provider)

SpecQuery == Init /\ [][NextQuery]_vars

\* models requested by the two concurrent calls: one of the OpenAI family,
\* one of the Anthropic family, one of no known family
ConcModels ==
    { <<"g","p","t","-","4">>, <<"c","l","a","u","d","e","-","3">>, <<"p","a","l","m">> }

\* provider responses in the runs of two concurrent calls
ConcResponses ==
    { resp \in PlainResponses :
        \/ "total_tokens" \in DOMAIN resp.usage /\ resp.usage.total_tokens = 80
        \/ "input_tokens" \in DOMAIN resp.usage
              /\ resp.usage.input_tokens = 120 /\ resp.usage.output_tokens = 80 }

\* two generate_completion calls, queries and embeddings calls, interleaved
\* at every await
NextConc ==
    \/ \E model \in ConcModels :
          Invoke(model, ParamMessages, default_temperature, default_max_tokens, no_kwargs)
    \/ Body
    \/ \E resp \in ConcResponses : ProviderResponds(resp)
    \/ ProviderFails
    \/ RetryIter
    \/ Wake
    \/ Complete
    \/ \E model \in ConcModels : PeerInvoke(model)
    \/ PeerBody
    \/ \E resp \in ConcResponses : PeerResponds(resp)
    \/ PeerFails
    \/ PeerRetryIter
    \/ PeerWake
    \/ PeerComplete
    \/ IsAvailable("groq")
    \/ CountTokens(<<"a","b","c","d","e","f","g","h","i">>)
    \/ GenerateEmbeddings

SpecConc == Init /\ [][NextConc]_vars

SpecParams == Init /\ [][NextParams]_vars

\* ------------------------------------------------------------ HTTP layer
\* fastapi.HTTPException(status_code, detail)
HTTPException(status_code, detail) ==
    [type |-> "HTTPException", status_code |-> status_code, detail |-> detail]

\* str(e): tenacity's RetryError shows its last attempt, the other
\* exceptions show their message
str(e) ==
    IF e.type = "RetryError"
    THEN "RetryError[<Future state=finished raised " \o e.last_attempt.type \o ">]"
    ELSE IF e.type = "HTTPException" THEN e.detail
    ELSE e.msg

\* what FastAPI sends for a value the endpoint returns
ok(body) == [status_code |-> 200, body |-> body]

\* what FastAPI sends for an HTTPException the endpoint raises
http_error(e) == [status_code |-> e.status_code, body |-> [detail |-> e.detail]]

\* an endpoint has been entered; it has no completion and no response yet
\* (completion is what the endpoint's last await of generate_completion
\* returned, Absent when it raised)
entered(handler, req) ==
    [handler |-> handler, pc |-> "awaiting", request |-> req, step |-> 0,
     completion |-> Absent, suggestions |-> Absent, response |-> Absent]

\* generate_completion(model: str = "gpt-4"), llm_manager.py line 53
default_model == <<"g","p","t","-","4">>

\* model="llama-3.3-70b-versatile", chat.py lines 132 and 189
chat_fixed_model ==
    <<"l","l","a","m","a","-","3",".","3","-","7","0","b","-",
      "v","e","r","s","a","t","i","l","e">>

\* chat.py lines 133-134 and 190-191
summarize_temperature == "0.5"
summarize_max_tokens == 500
suggest_temperature == "0.8"
suggest_max_tokens == 300

\* ChatCompletionRequest bodies that pass validation
ChatCompletionRequests ==
    { [message |-> "What is the main finding?",
       context |-> [sessionId |-> "s1", papers |-> papers, conversationHistory |-> history],
       model |-> model, temperature |-> default_temperature, maxTokens |-> default_max_tokens]
      : papers \in {<<>>},
        history \in { <<>>, <<Message("system", "1"), Message("user", "2")>> },
        model \in ConcModels }

\* SummarizeRequest bodies
SummarizeRequests ==
    { [messages |-> messages, sessionName |-> "reading group"]
      : messages \in { <<>>, <<Message("user", "1"), Message("assistant", "2")>> } }

\* QuestionSuggestionRequest bodies
QuestionSuggestionRequests ==
    { [papers |-> papers, conversationHistory |-> history]
      : papers \in { << [title |-> "Attention"], [authors |-> "Ho"] >> },
        history \in { <<>>, <<Message("user", "1")>> } }

\* str.upper on a role
upper(role) ==
    CASE role = "user" -> "USER"
      [] role = "assistant" -> "ASSISTANT"
      [] role = "system" -> "SYSTEM"
      [] OTHER -> role

\* the i-th character of a string
char(s, i) == SubSeq(s, i, i)

Whitespace == {" ", "\n", "\t"}

Digits == {"0", "1", "2", "3", "4", "5", "6", "7", "8", "9"}

RECURSIVE lstrip(_)
lstrip(s) ==
    IF Len(s) > 0 /\ char(s, 1) \in Whitespace THEN lstrip(SubSeq(s, 2, Len(s))) ELSE s

RECURSIVE rstrip(_)
rstrip(s) ==
    IF Len(s) > 0 /\ char(s, Len(s)) \in Whitespace THEN rstrip(SubSeq(s, 1, Len(s) - 1)) ELSE s

\* str.strip
strip(s) == rstrip(lstrip(s))

\* str.split(sep) for a one-character separator
RECURSIVE split(_, _)
split(s, sep) ==
    IF \A i \in 1..Len(s) : char(s, i) /= sep
    THEN <<s>>
    ELSE LET i == CHOOSE i \in 1..Len(s) :
                     char(s, i) = sep /\ \A j \in 1..(i - 1) : char(s, j) /= sep
         IN <<SubSeq(s, 1, i - 1)>> \o split(SubSeq(s, i + 1, Len(s)), sep)

\* chat.py lines 195-198 and 201: the numbered lines of the completion
questions_limit == 5
digit_window == 3

is_question(q) ==
    /\ strip(q) /= ""
    /\ \E i \in 1..Len(first_n(q, digit_window)) : char(q, i) \in Digits

parse_questions(content) ==
    first_n([i \in 1..Len(SelectSeq(split(content, "\n"), is_question)) |->
                strip(SelectSeq(split(content, "\n"), is_question)[i])],
            questions_limit)

\* chat.py lines 109-127
summarize_messages(req) ==
    << [role |-> "system",
        content |-> "You are an AI assistant that summarizes research discussions."],
       [role |-> "user",
        content |-> "Summarize this conversation:\n\n"
                    \o join("\n\n", [i \in 1..Len(req.messages) |->
                                         upper(req.messages[i].role) \o ": "
                                         \o req.messages[i].content])] >>

\* conversationHistory[-5:], chat.py line 171
recent_window == 5

\* chat.py lines 170-185
suggest_messages(req) ==
    << [role |-> "system",
        content |-> "You are a research assistant helping formulate good research questions."],
       [role |-> "user",
        content |-> "Based on these research papers:\n"
                    \o join("\n", [i \in 1..Len(req.papers) |->
                                       "- " \o get(req.papers[i], "title", "Untitled")])
                    \o "\n\nAnd recent conversation:\n"
                    \o (IF req.conversationHistory /= <<>>
                        THEN join("\n",
                                  [i \in 1..Len(last_n(req.conversationHistory, recent_window)) |->
                                      last_n(req.conversationHistory, recent_window)[i].role \o ": "
                                      \o last_n(req.conversationHistory, recent_window)[i].content])
                        ELSE "No conversation yet")
                    \o "\n\nSuggest 5 insightful questions ..."] >>

\* POST /completion: chat_completion up to its await, chat.py lines 52-71
chat_completion(req) ==
    /\ http.pc = "idle"
    /\ generate_completion(req.model,
                           _build_messages(req.message, req.context.conversationHistory,
                                           _build_paper_context(req.context.papers)),
                           req.temperature, req.maxTokens, no_kwargs)
    /\ http' = entered("chat_completion", req)

\* mutant: the metadata reports the model of the completion result
chat_completion_resumes_result_model ==
    /\ http.handler = "chat_completion"
    /\ http.pc = "awaiting"
    /\ await_done
    /\ http' = [http EXCEPT
                   !.pc = "responded",
                   !.completion = IF pc = "returned" THEN result ELSE Absent,
                   !.response =
                       IF pc = "returned"
                       THEN ok([content |-> result.content,
                                metadata |-> [model |-> result.model,
                                              tokens |-> get(result, "tokens", 0),
                                              finish_reason |-> get(result, "finish_reason", "stop")]])
                       ELSE http_error(HTTPException(500,
                                "Failed to generate chat completion: " \o str(raised)))]

\* chat_completion after its await, chat.py lines 73-89
chat_completion_resumes ==
    /\ http.handler = "chat_completion"
    /\ http.pc = "awaiting"
    /\ await_done
    /\ http' = [http EXCEPT
                   !.pc = "responded",
                   !.completion = IF pc = "returned" THEN result ELSE Absent,
                   !.response =
                       IF pc = "returned"
                       THEN ok([content |-> result.content,
                                metadata |-> [model |-> http.request.model,
                                              tokens |-> get(result, "tokens", 0),
                                              finish_reason |-> get(result, "finish_reason", "stop")]])
                       ELSE http_error(HTTPException(500,
                                "Failed to generate chat completion: " \o str(raised)))]

\* POST /summarize: summarize_conversation up to its await, lines 105-135
summarize_conversation(req) ==
    /\ http.pc = "idle"
    /\ generate_completion(chat_fixed_model, summarize_messages(req),
                           summarize_temperature, summarize_max_tokens, no_kwargs)
    /\ http' = entered("summarize_conversation", req)

\* summarize_conversation after its await, lines 137-150
summarize_conversation_resumes ==
    /\ http.handler = "summarize_conversation"
    /\ http.pc = "awaiting"
    /\ await_done
    /\ http' = [http EXCEPT
                   !.pc = "responded",
                   !.completion = IF pc = "returned" THEN result ELSE Absent,
                   !.response =
                       IF pc = "returned"
                       THEN ok([summary |-> result.content,
                                metadata |-> [message_count |-> Len(http.request.messages),
                                              tokens |-> get(result, "tokens", 0)]])
                       ELSE http_error(HTTPException(500,
                                "Failed to generate summary: " \o str(raised)))]

\* POST /suggest-questions: suggest_questions up to its await, lines 166-192
suggest_questions(req) ==
    /\ http.pc = "idle"
    /\ generate_completion(chat_fixed_model, suggest_messages(req),
                           suggest_temperature, suggest_max_tokens, no_kwargs)
    /\ http' = entered("suggest_questions", req)

\* mutant: a failed completion is answered with an empty list of questions
suggest_questions_resumes_swallowing ==
    /\ http.handler = "suggest_questions"
    /\ http.pc = "awaiting"
    /\ await_done
    /\ http' = [http EXCEPT
                   !.pc = "responded",
                   !.completion = IF pc = "returned" THEN result ELSE Absent,
                   !.response =
                       ok([questions |-> IF pc = "returned"
                                         THEN parse_questions(result.content) ELSE <<>>,
                           metadata |-> [paper_count |-> Len(http.request.papers),
                                         tokens |-> IF pc = "returned"
                                                    THEN get(result, "tokens", 0) ELSE 0]])]

\* suggest_questions after its await, lines 194-213
suggest_questions_resumes ==
    /\ http.handler = "suggest_questions"
    /\ http.pc = "awaiting"
    /\ await_done
    /\ http' = [http EXCEPT
                   !.pc = "responded",
                   !.completion = IF pc = "returned" THEN result ELSE Absent,
                   !.response =
                       IF pc = "returned"
                       THEN ok([questions |-> parse_questions(result.content),
                                metadata |-> [paper_count |-> Len(http.request.papers),
                                              tokens |-> get(result, "tokens", 0)]])
                       ELSE http_error(HTTPException(500,
                                "Failed to generate questions: " \o str(raised)))]

\* the response has gone out to the client
Deliver ==
    /\ http.pc = "responded"
    /\ http' = idle_http
    /\ UNCHANGED <<registry, call, peer, observed>>

\* provider responses in the runs of the HTTP handlers: every text, one
\* token count
HttpResponses ==
    { resp \in Responses("openai") \cup Responses("anthropic") :
        \/ "total_tokens" \in DOMAIN resp.usage /\ resp.usage.total_tokens = 80
        \/ "input_tokens" \in DOMAIN resp.usage
              /\ resp.usage.input_tokens = 120 /\ resp.usage.output_tokens = 80 }

\* ------------------------------------------------------- paper_analysis.py
\* call_llm(temperature: float = 0.3, max_tokens: int = 2000), line 50
call_llm_temperature == "0.3"
call_llm_max_tokens == 2000

Prompts == {"Assess the methodology section."}

\* paper_analysis.py lines 56-65
call_llm_messages(prompt) ==
    << [role |-> "system",
        content |-> "You are an expert academic writing reviewer and editor ..."],
       [role |-> "user", content |-> prompt] >>

\* call_llm up to its await, lines 55-72: no model argument is given
call_llm(prompt) ==
    /\ http.pc = "idle"
    /\ generate_completion(default_model, call_llm_messages(prompt),
                           call_llm_temperature, call_llm_max_tokens, no_kwargs)
    /\ http' = entered("call_llm", [prompt |-> prompt])

\* call_llm after its await, lines 74-78
call_llm_resumes ==
    /\ http.handler = "call_llm"
    /\ http.pc = "awaiting"
    /\ await_done
    /\ http' = [http EXCEPT
                   !.pc = "responded",
                   !.completion = IF pc = "returned" THEN result ELSE Absent,
                   !.response =
                       IF pc = "returned"
                       THEN ok(result.content)
                       ELSE http_error(HTTPException(500,
                                "AI analysis failed: " \o str(raised)))]

\* Settings() under an environment that may also override the models
EnvSettings ==
    [OPENAI_API_KEY : {None, "sk-openai"},
     ANTHROPIC_API_KEY : {None, "sk-ant"},
     GROQ_API_KEY : {"", "gsk"},
     OPENAI_MODEL : {OPENAI_MODEL, <<"g","p","t","-","4","o">>},
     ANTHROPIC_MODEL : {ANTHROPIC_MODEL, <<"c","l","a","u","d","e","-","3","-","o","p","u","s">>},
     GROQ_MODEL : {GROQ_MODEL, <<"m","i","x","t","r","a","l","-","8","x","7","b">>}]

InitEnv == settings \in EnvSettings /\ Constructed

\* call_llm under every registry and every model setting
NextPaper ==
    \/ \E prompt \in Prompts : call_llm(prompt)
    \/ Body
    \/ \E resp \in HttpResponses : ProviderResponds(resp)
    \/ ProviderFails
    \/ RetryIter
    \/ Wake
    \/ call_llm_resumes
    \/ Deliver

SpecPaper == InitEnv /\ [][NextPaper]_vars

\* --------------------------------------------------------------- writing.py
\* len(request.text) < 50, line 39
min_text_length == 50

\* grammar_issues[:10] (lines 77, 116, 155, 196), json.loads(...)[:5] (217)
issues_limit == 10
improvements_limit == 5

\* lines 219-225
default_improvements ==
    << "Review overall structure and flow",
       "Check all citations and references",
       "Ensure consistent academic tone",
       "Verify all claims are supported",
       "Proofread for grammar and clarity" >>

\* the analyses in the order of the handler; the last one is unconditional
analysis_plan == <<"grammar", "style", "clarity", "academic", "improvements">>

\* temperature= of lines 70, 109, 148, 189, 212
analysis_temperature == <<"0.3", "0.5", "0.4", "0.3", "0.6">>

\* the prompts of lines 52-66, 84-105, 123-144, 162-185, 202-208
analysis_prompt(k, text) ==
    "Analyze the following text (" \o analysis_plan[k] \o "). Return ONLY a JSON array.\nText: "
    \o text

RECURSIVE repeat(_, _)
repeat(c, n) == IF n = 0 THEN "" ELSE c \o repeat(c, n - 1)

\* WritingAnalysisRequest bodies: texts around the length limit, and lists
\* of analysis types
WritingAnalysisRequests ==
    { [text |-> repeat("a", n), analysis_types |-> types]
      : n \in {0, min_text_length - 1, min_text_length, min_text_length + 1},
        types \in { {"grammar", "style", "clarity", "academic"}, {"style", "academic"}, {} } }

TypeError == [type |-> "TypeError", msg |-> "the JSON object must be str, bytes or bytearray"]

JSONDecodeError == [type |-> "JSONDecodeError", msg |-> "Expecting value"]

ValidationError == [type |-> "ValidationError", msg |-> "validation error for WritingAnalysisResponse"]

\* json.loads on a str; items is the Python type of the array's elements
json_decode(s) ==
    CASE s = "[\"Shorten the abstract\"]" ->
            [returned |-> <<"Shorten the abstract">>, items |-> "str"]
      [] s = "[{\"title\": \"Agreement\", \"description\": \"Verb form\", \"category\": \"grammar\", \"severity\": \"error\"}]" ->
            [returned |-> << [title |-> "Agreement", description |-> "Verb form",
                              category |-> "grammar", severity |-> "error"] >>,
             items |-> "dict"]
      [] OTHER -> [raised |-> JSONDecodeError]

\* json.loads(v): anything but a str, bytes or bytearray is a TypeError
json_loads(v) ==
    IF v.type = "str" THEN json_decode(v.value) ELSE [raised |-> TypeError]

\* mutant: the text of the completion is parsed
loads_argument_content(completion) == [type |-> "str", value |-> completion.content]

\* json.loads(grammar_result): the argument is the dict that
\* generate_completion returned (lines 75, 114, 153, 194, 217)
loads_argument(completion) == [type |-> "dict", value |-> completion]

\* Suggestion(**issue): title, description, category and severity are
\* required, the other three fields default to None
Suggestion(issue) ==
    [title |-> issue.title, description |-> issue.description,
     category |-> issue.category, severity |-> issue.severity,
     original |-> get(issue, "original", None),
     replacement |-> get(issue, "replacement", None),
     explanation |-> get(issue, "explanation", None)]

\* one try/except of lines 73-80: the list assigned to suggestions[kind], or
\* the list it had when the try block raised
parsed_issues(completion, before) ==
    LET loaded == json_loads(loads_argument(completion)) IN
    IF "raised" \in DOMAIN loaded THEN before
    ELSE IF loaded.items /= "dict" THEN before
    ELSE [i \in 1..Len(first_n(loaded.returned, issues_limit)) |->
             Suggestion(first_n(loaded.returned, issues_limit)[i])]

\* lines 215-225
parsed_improvements(completion) ==
    LET loaded == json_loads(loads_argument(completion)) IN
    IF "raised" \in DOMAIN loaded THEN [value |-> default_improvements, items |-> "str"]
    ELSE [value |-> first_n(loaded.returned, improvements_limit), items |-> loaded.items]

\* mutant: the general handler is the only except clause
writing_except_general(e) ==
    HTTPException(500, "Analysis failed: " \o str(e))

\* the except clauses of lines 229-232
writing_except(e) ==
    IF e.type = "HTTPException" THEN e
    ELSE HTTPException(500, "Analysis failed: " \o str(e))

\* POST /analyze-writing: analyze_writing up to the first prompt, lines 38-48
analyze_writing(req) ==
    /\ http.pc = "idle"
    /\ pc = "idle"
    /\ IF Len(req.text) < min_text_length
       THEN http' = [entered("analyze_writing", req) EXCEPT
                        !.pc = "responded",
                        !.response = http_error(writing_except(
                            HTTPException(400, "Text must be at least 50 characters")))]
       ELSE http' = [entered("analyze_writing", req) EXCEPT
                        !.pc = "running",
                        !.step = 1,
                        !.suggestions = [grammar |-> <<>>, style |-> <<>>, clarity |-> <<>>,
                                         academic |-> <<>>, improvements |-> <<>>]]
    /\ UNCHANGED <<registry, call, peer, observed>>

\* the next analysis, from the k-th on, that the request asks for
RECURSIVE next_analysis(_, _)
next_analysis(k, types) ==
    IF k = Len(analysis_plan) \/ analysis_plan[k] \in types THEN k
    ELSE next_analysis(k + 1, types)

\* analyze_writing runs to its next await (lines 51-71, 83-110, 122-149,
\* 161-190, 202-213): the model argument is left to its default
analyze_writing_calls ==
    /\ http.handler = "analyze_writing"
    /\ http.pc = "running"
    /\ LET k == next_analysis(http.step, http.request.analysis_types) IN
       /\ generate_completion(default_model,
                              <<[role |-> "user", content |-> analysis_prompt(k, http.request.text)]>>,
                              analysis_temperature[k], default_max_tokens, no_kwargs)
       /\ http' = [http EXCEPT !.pc = "awaiting", !.step = k]

\* analyze_writing after an await: the completion is parsed (lines 73-80,
\* 112-119, 151-158, 192-199, 215-225) and the handler goes on to the next
\* analysis or returns (line 227); an exception of the call is mapped by
\* the except clauses
analyze_writing_resumes ==
    /\ http.handler = "analyze_writing"
    /\ http.pc = "awaiting"
    /\ await_done
    /\ LET k == http.step
           kind == analysis_plan[k] IN
       IF pc = "raised"
       THEN http' = [http EXCEPT !.pc = "responded",
                                 !.completion = Absent,
                                 !.response = http_error(writing_except(raised))]
       ELSE IF k < Len(analysis_plan)
       THEN http' = [http EXCEPT
                        !.pc = "running",
                        !.step = k + 1,
                        !.completion = result,
                        !.suggestions[kind] = parsed_issues(result, http.suggestions[kind])]
       ELSE LET improvements == parsed_improvements(result)
                suggestions == [http.suggestions EXCEPT !.improvements = improvements.value] IN
            http' = [http EXCEPT
                        !.pc = "responded",
                        !.completion = result,
                        !.suggestions = suggestions,
                        !.response = IF improvements.items = "str"
                                     THEN ok(suggestions)
                                     ELSE http_error(writing_except(ValidationError))]

\* the chat endpoints and analyze_writing, one request at a time
NextHttp ==
    \/ \E req \in ChatCompletionRequests : chat_completion(req)
    \/ chat_completion_resumes
    \/ \E req \in SummarizeRequests : summarize_conversation(req)
    \/ summarize_conversation_resumes
    \/ \E req \in QuestionSuggestionRequests : suggest_questions(req)
    \/ suggest_questions_resumes
    \/ \E req \in WritingAnalysisRequests : analyze_writing(req)
    \/ analyze_writing_calls
    \/ analyze_writing_resumes
    \/ Body
    \/ \E resp \in HttpResponses : ProviderResponds(resp)
    \/ ProviderFails
    \/ RetryIter
    \/ Wake
    \/ Deliver

SpecHttp == Init /\ [][NextHttp]_vars

\* ======================================================================
\* Properties
\* ======================================================================
Last(seq) == seq[Len(seq)]

Registered(family) == client_of(family) /= None

AnyRegistered == \E f \in Families : Registered(f)

\* the family a model identifier belongs to by its prefix, None if unknown
InferredFamily(model) ==
    IF startswith(model, <<"g","p","t">>) \/ startswith(model, <<"o","1">>) THEN "openai"
    ELSE IF startswith(model, <<"c","l","a","u","d","e">>) THEN "anthropic"
    ELSE IF \/ startswith(model, <<"l","l","a","m","a">>)
            \/ startswith(model, <<"m","i","x","t","r","a","l">>)
            \/ startswith(model, <<"g","e","m","m","a">>) THEN "groq"
    ELSE None

\* the configured default identifier of a family
DefaultModel(family) ==
    CASE family = "openai" -> OPENAI_MODEL
      [] family = "anthropic" -> ANTHROPIC_MODEL
      [] family = "groq" -> GROQ_MODEL

NativeRegistered(model) ==
    InferredFamily(model) /= None /\ Registered(InferredFamily(model))

IsSystem(m) == m.role = "system"
NotSystem(m) == m.role /= "system"

SystemPositions(messages) == { i \in 1..Len(messages) : IsSystem(messages[i]) }

FirstSystem(messages) ==
    CHOOSE i \in SystemPositions(messages) : \A j \in SystemPositions(messages) : i <= j

LastSystem(messages) ==
    CHOOSE i \in SystemPositions(messages) : \A j \in SystemPositions(messages) : j <= i

\* the list without its i-th element
Without(seq, i) == SubSeq(seq, 1, i - 1) \o SubSeq(seq, i + 1, Len(seq))

\* C1: whenever generate_completion returns a result, the result's provider
\* names a family whose client is registered.
C1_ProviderIsRegistered ==
    pc = "returned" =>
        /\ result.provider \in Families
        /\ Registered(result.provider)

\* a result served by the only registered family, for a model of another family
C1_Witness ==
    /\ pc = "returned"
    /\ result.provider = "groq"
    /\ ~Registered("openai") /\ ~Registered("anthropic")
    /\ InferredFamily(request.model) = "openai"

\* C2: if the family inferred from the model's prefix is registered, the call
\* is dispatched to that family's adapter with the identifier unchanged, and a
\* result carries the requested identifier and the inferred family.
C2_NativeRouteUnchanged ==
    (pc \in {"awaiting", "returned"} /\ NativeRegistered(request.model)) =>
        /\ frame.adapter = InferredFamily(request.model)
        /\ frame.model = request.model
        /\ Last(sent).provider = InferredFamily(request.model)
        /\ Last(sent).model = request.model
        /\ pc = "returned" =>
              /\ result.model = request.model
              /\ result.provider = InferredFamily(request.model)

\* an o1 model served by openai while groq, first in the fallback order, is registered
C2_Witness ==
    /\ pc = "returned"
    /\ request.model = <<"o","1","-","m","i","n","i">>
    /\ Registered("groq") /\ Registered("openai")
    /\ result.provider = "openai"
    /\ result.model = request.model

\* C3: if the model's inferred family is unregistered or unknown and some
\* family is registered, every attempt reaches a provider with that family's
\* configured default identifier, never with the requested one, and a result
\* carries that default identifier.
C3_FallbackUsesDefaultModel ==
    (pc /= "idle" /\ ~NativeRegistered(request.model) /\ AnyRegistered) =>
        /\ pc = "attempt_failed" => exc = APIError
        /\ \A i \in 1..Len(sent) :
              /\ Registered(sent[i].provider)
              /\ sent[i].model = DefaultModel(sent[i].provider)
              /\ sent[i].model /= request.model
        /\ pc = "returned" =>
              /\ result.model = DefaultModel(result.provider)
              /\ result.model /= request.model

\* a gpt model answered by groq with GROQ_MODEL, openai being unregistered
C3_Witness ==
    /\ pc = "returned"
    /\ request.model = <<"g","p","t","-","4">>
    /\ ~Registered("openai")
    /\ result.provider = "groq"
    /\ result.model = GROQ_MODEL

\* C4: if zero families are registered, every call fails with the
\* configuration error (no providers available) and no provider call is made
\* in any of its attempts.
C4_ZeroFamiliesConfigurationError ==
    ~AnyRegistered =>
        /\ sent = <<>>
        /\ pc /= "returned"
        /\ pc = "attempt_failed" => exc = NoProviders
        /\ pc = "raised" => raised = NoProviders

\* C5: if the provider call fails on attempts 1..k-1 and succeeds on attempt
\* k <= 3, the caller gets attempt k's result and no error, exactly k provider
\* calls have been made, a failed attempt before the third is followed by a
\* further attempt, and no attempt follows the success.
C5_RetryUntilSuccess ==
    /\ [](pc = "returned" =>
            /\ attempt_number \in 1..3
            /\ Len(sent) = attempt_number
            /\ Len(outcomes) = attempt_number
            /\ \A i \in 1..(attempt_number - 1) : outcomes[i] = "error"
            /\ outcomes[attempt_number] = "ok"
            /\ result.content = response.content
            /\ result.provider = Last(sent).provider
            /\ raised = Absent)
    /\ [][(pc = "attempt_failed" /\ attempt_number < 3) =>
            (pc' = "sleeping" /\ raised' = Absent /\ result' = Absent)]_vars
    /\ [][pc = "sleeping" => (pc' = "body" /\ attempt_number' = attempt_number + 1)]_vars
    /\ [][pc = "returned" => (pc' = "idle" /\ sent' = <<>>)]_vars

\* two failures, then a success on the third attempt
C5_Witness ==
    /\ pc = "returned"
    /\ attempt_number = 3
    /\ outcomes = <<"error", "error", "ok">>
    /\ Len(sent) = 3
    /\ raised = Absent

\* C6: if the provider call fails on every attempt, exactly 3 attempts are
\* made and never a fourth, then the call fails to the caller; no result is
\* returned in place of the failure.
C6_RetryExhaustion ==
    /\ [](/\ attempt_number <= 3
          /\ Len(sent) <= 3
          /\ pc = "raised" =>
                /\ attempt_number = 3
                /\ Len(outcomes) \in {0, 3}
                /\ \A i \in 1..Len(outcomes) : outcomes[i] = "error"
                /\ result = Absent
                /\ raised /= Absent
          /\ result /= Absent => (pc = "returned" /\ Last(outcomes) = "ok"))
    /\ [][(pc = "attempt_failed" /\ attempt_number = 3) =>
            (pc' = "raised" /\ result' = Absent /\ slept' = slept)]_vars

\* three provider calls, all failed, and the call has failed to the caller
C6_Witness ==
    /\ pc = "raised"
    /\ outcomes = <<"error", "error", "error">>
    /\ Len(sent) = 3
    /\ result = Absent

\* C7: after all 3 attempts have failed, the failure delivered to the caller
\* is the failure raised by the last attempt, neither wrapped nor translated.
C7_LastFailureUnchanged ==
    pc = "raised" => raised = exc

\* C8: the result's tokens field is input_tokens + output_tokens for
\* anthropic and the reported total_tokens for openai and groq.
C8_TokenAccounting ==
    pc = "returned" =>
        IF result.provider = "anthropic"
        THEN result.tokens = response.usage.input_tokens + response.usage.output_tokens
        ELSE result.tokens = response.usage.total_tokens

\* anthropic reports 120 input and 80 output tokens: tokens is 200
C8_Witness ==
    /\ pc = "returned"
    /\ result.provider = "anthropic"
    /\ response.usage.input_tokens = 120
    /\ response.usage.output_tokens = 80
    /\ result.tokens = 200

\* C9: for a message list with exactly one system message, the anthropic
\* adapter sends that message's content as the system field and exactly the
\* non-system messages, in their order, role and content unchanged, as turns.
C9_SingleSystemExtraction ==
    \A i \in 1..Len(sent) :
        (sent[i].provider = "anthropic"
            /\ Cardinality(SystemPositions(request.messages)) = 1) =>
            /\ sent[i].system = request.messages[FirstSystem(request.messages)].content
            /\ sent[i].messages = SelectSeq(request.messages, NotSystem)

\* [system, user, assistant] went to anthropic
C9_Witness ==
    /\ pc = "awaiting"
    /\ Last(sent).provider = "anthropic"
    /\ Len(request.messages) = 3
    /\ request.messages[1].role = "system"
    /\ request.messages[2].role = "user"
    /\ request.messages[3].role = "assistant"

KwargsOf(p) == IF "kwargs" \in DOMAIN p THEN p.kwargs ELSE {}

\* C11: whichever family serves the call, the temperature, max_tokens and
\* every extra keyword argument of the caller are in the request made to the
\* provider, unchanged.
C11_ParametersForwarded ==
    \A i \in 1..Len(sent) :
        /\ sent[i].temperature = request.temperature
        /\ sent[i].max_tokens = request.max_tokens
        /\ KwargsOf(sent[i]) = request.kwargs

\* C12: whenever generate_completion returns a result, its model is the
\* identifier sent to the provider in the successful attempt and its provider
\* is the family whose adapter made that call, fallback or not.
C12_ResultReflectsInvocation ==
    pc = "returned" =>
        /\ result.model = Last(sent).model
        /\ result.provider = Last(sent).provider
        /\ result.provider = frame.adapter

\* an o1 model served natively by openai under its own name
C12_Witness ==
    /\ pc = "returned"
    /\ request.model = <<"o","1","-","m","i","n","i">>
    /\ Last(sent).provider = "openai"
    /\ Last(sent).model = request.model
    /\ result.model = request.model

\* C13: within one call each attempt makes at most one provider call, and
\* all provider calls of the call go to one family with one model identifier.
C13_OneFamilyPerCall ==
    /\ Len(sent) <= attempt_number
    /\ \A i, j \in 1..Len(sent) :
          /\ sent[i].provider = sent[j].provider
          /\ sent[i].model = sent[j].model

\* a third provider call of a call whose native family and another one are
\* both registered
C13_Witness ==
    /\ pc = "awaiting"
    /\ Len(sent) = 3
    /\ sent[1].provider = "anthropic"
    /\ Registered("groq")

\* C14: a model identifier of no known prefix is no cause of failure: with a
\* family registered every attempt makes a provider call, and an attempt or
\* the call fails only with the provider's failure.
C14_UnknownModelFallsBack ==
    (pc /= "idle" /\ InferredFamily(request.model) = None /\ AnyRegistered) =>
        /\ pc \in {"awaiting", "returned", "attempt_failed", "raised"} =>
              Len(sent) = attempt_number
        /\ pc = "attempt_failed" => (exc = APIError /\ Last(outcomes) = "error")
        /\ pc = "raised" =>
              (raised.last_attempt = APIError /\ Len(outcomes) = 3)

\* a model of no known family answered by a provider
C14_Witness ==
    /\ pc = "returned"
    /\ request.model = <<"p","a","l","m">>
    /\ Len(sent) = 1
    /\ result.provider = "groq"

\* the family the fixed fallback order groq, openai, anthropic gives
FallbackFamily ==
    IF Registered("groq") THEN "groq"
    ELSE IF Registered("openai") THEN "openai"
    ELSE IF Registered("anthropic") THEN "anthropic"
    ELSE None

\* the family that serves a model under the current registry
SelectedFamily(model) ==
    IF NativeRegistered(model) THEN InferredFamily(model) ELSE FallbackFamily

\* C15: the serving family is a function of the requested model and the
\* registry; on the fallback path it is groq if registered, else openai if
\* registered, else anthropic.
C15_FallbackPriority ==
    \A i \in 1..Len(sent) : sent[i].provider = SelectedFamily(request.model)

\* a groq model served by openai: groq is unregistered, openai and anthropic are
C15_Witness ==
    /\ pc = "returned"
    /\ InferredFamily(request.model) = "groq"
    /\ ~Registered("groq") /\ Registered("openai") /\ Registered("anthropic")
    /\ result.provider = "openai"

\* the API key of a family in Settings
KeyOf(family) ==
    CASE family = "openai" -> settings.OPENAI_API_KEY
      [] family = "anthropic" -> settings.ANTHROPIC_API_KEY
      [] family = "groq" -> settings.GROQ_API_KEY

\* the registration __init__ is to produce from the keys and the constructors
InitRegistered(family) ==
    KeyOf(family) \notin {None, ""} /\ family \notin ctor_raises

\* C16: after __init__ a family is registered exactly when its key is
\* non-empty and its constructor did not fail, whatever happened to the
\* other two families.
C16_BestEffortRegistry ==
    \A f \in Families : Registered(f) <=> InitRegistered(f)

\* the openai constructor failed, the other two families are registered
C16_Witness ==
    /\ pc = "idle"
    /\ ctor_raises = {"openai"}
    /\ ~Registered("openai")
    /\ Registered("anthropic") /\ Registered("groq")

\* C18: attempt n+1 starts only from the backoff sleep that follows the
\* failure of attempt n; at most one provider call of the call is in flight;
\* a result exists only after the first success and an exception is
\* delivered only after the last attempt.
C18_AttemptsSequential ==
    /\ [](/\ Len(outcomes) <= Len(sent)
          /\ Len(sent) <= Len(outcomes) + 1
          /\ (Len(sent) = Len(outcomes) + 1) <=> (pc = "awaiting")
          /\ pc \in {"body", "awaiting"} =>
                /\ Len(slept) = attempt_number - 1
                /\ \A i \in 1..Len(outcomes) : outcomes[i] = "error"
          /\ result /= Absent =>
                /\ pc = "returned"
                /\ \A i \in 1..(Len(outcomes) - 1) : outcomes[i] = "error"
          /\ raised /= Absent => (pc = "raised" /\ attempt_number = 3))
    /\ [][(attempt_number >= 1 /\ attempt_number' > attempt_number) =>
            /\ pc = "sleeping"
            /\ exc /= Absent
            /\ Len(slept) = attempt_number
            /\ attempt_number' = attempt_number + 1]_vars

\* the second attempt is in flight after one failure and one sleep
C18_Witness ==
    /\ pc = "awaiting"
    /\ attempt_number = 2
    /\ outcomes = <<"error">>
    /\ Len(slept) = 1

\* C20 as stated: the backoff is 4 after the first failed attempt and twice
\* that, capped at 10, after the second.
C20_BackoffDoubles ==
    /\ Len(slept) >= 1 => slept[1] = 4
    /\ Len(slept) >= 2 => slept[2] = 2 * slept[1]
    /\ \A n \in 1..Len(slept) : slept[n] <= 10

\* C20 amended: the backoff after the n-th failed attempt is 2^(n-1) raised
\* to the floor 4 and capped at 10, which is 4 after the first failed attempt
\* and 4 again after the second: it does not double within a call.
C20_BackoffClamped ==
    /\ Len(slept) <= 2
    /\ \A n \in 1..Len(slept) :
          /\ slept[n] = (IF 2 ^ (n - 1) < 4 THEN 4 ELSE IF 2 ^ (n - 1) > 10 THEN 10 ELSE 2 ^ (n - 1))
          /\ slept[n] = 4

\* the call has slept twice
C20_Witness ==
    /\ Len(slept) = 2
    /\ pc = "awaiting"
    /\ attempt_number = 3

\* C17: is_available(family) returns true exactly when the named family is
\* one of the three and has a registered client, false for any other name,
\* and changes nothing but what its caller sees.
C17_IsAvailablePure ==
    /\ [](observed /= Absent =>
            (observed.returned <=>
                (observed.provider \in Families /\ Registered(observed.provider))))
    /\ [][observed' /= observed => UNCHANGED <<registry, call, peer, http>>]_vars

\* a name that is no family is answered false while openai is registered and
\* a call is in flight
C17_Witness ==
    /\ observed /= Absent
    /\ observed.provider = "mistral"
    /\ observed.returned = FALSE
    /\ Registered("openai")
    /\ pc = "awaiting"

\* the routing of a model under the registry __init__ is to produce
InitNative(model) ==
    InferredFamily(model) /= None /\ InitRegistered(InferredFamily(model))

InitFallback ==
    IF InitRegistered("groq") THEN "groq"
    ELSE IF InitRegistered("openai") THEN "openai"
    ELSE "anthropic"

InitSelectedFamily(model) ==
    IF InitNative(model) THEN InferredFamily(model) ELSE InitFallback

InitSelectedModel(model) ==
    IF InitNative(model) THEN model ELSE DefaultModel(InitFallback)

\* C19: under every interleaving of two generate_completion calls with
\* is_available, count_tokens and generate_embeddings calls, no step writes a
\* client field, the registry stays the one __init__ produced, and the family
\* and model of each call's provider request follow from its own requested
\* model and that registry.
C19_RegistryReadOnly ==
    /\ [][UNCHANGED <<openai_client, anthropic_client, groq_client>>]_vars
    /\ [](\A f \in Families : Registered(f) <=> InitRegistered(f))
    /\ [](pc \in {"awaiting", "returned"} =>
            /\ frame.adapter = InitSelectedFamily(request.model)
            /\ frame.model = InitSelectedModel(request.model))
    /\ [](peer.pc \in {"awaiting", "returned"} =>
            /\ peer.frame.adapter = InitSelectedFamily(peer.request.model)
            /\ peer.frame.model = InitSelectedModel(peer.request.model))

\* both calls have a provider request in flight, at different families, the
\* first call in its second attempt
C19_Witness ==
    /\ pc = "awaiting"
    /\ peer.pc = "awaiting"
    /\ attempt_number = 2
    /\ frame.adapter = "openai"
    /\ peer.frame.adapter = "anthropic"

\* C21: every wait of one generate_completion call is at least 4 and at most
\* 10 time units, a call makes at most 2 waits, and the waits are exactly
\* those between two attempts: a call in its n-th attempt, or ended by it
\* with a result or with the final failure, has waited n - 1 times.
C21_WaitsBetweenAttempts ==
    /\ \A n \in 1..Len(slept) : slept[n] >= 4 /\ slept[n] <= 10
    /\ Len(slept) <= 2
    /\ pc \in {"body", "awaiting", "attempt_failed", "returned", "raised"} =>
          Len(slept) = attempt_number - 1
    /\ pc = "sleeping" => Len(slept) = attempt_number
    /\ pc = "returned" => Len(slept) = Len(outcomes) - 1

\* the third attempt failed and the call ended without a third wait
C21_Witness ==
    /\ pc = "raised"
    /\ outcomes = <<"error", "error", "error">>
    /\ Len(slept) = 2

\* C22: an adapter that is called while its own client is missing raises
\* its "client not initialized" ValueError at once, whatever the other two
\* clients are: no request was shaped or sent, no provider outcome exists,
\* and only an adapter with a client ever waits for a provider.
C22_AdapterFailsFast ==
    /\ (pc /= "idle" /\ ~Registered(request.adapter)) =>
          /\ pc = "raised"
          /\ raised = ValueError(<<request.adapter, "client not initialized. Check API key.">>)
          /\ frame = Absent
          /\ sent = <<>>
          /\ outcomes = <<>>
    /\ pc = "adapter_awaiting" => Registered(frame.adapter)

\* _generate_groq was called without a groq client while the other two
\* families are registered
C22_Witness ==
    /\ pc = "raised"
    /\ request.adapter = "groq"
    /\ ~Registered("groq")
    /\ Registered("openai") /\ Registered("anthropic")
    /\ Len(request.messages) = 2

\* the failed runs of the body of generate_completion, each of which logs
\* its exception once (line 95)
FailedBodyRuns ==
    { i \in 1..Len(log) :
        log[i].level = "ERROR" /\ log[i] = generation_error_record(log[i].error) }

\* C23: a failed attempt is retried whatever it raised: a call fails only
\* after 3 failed runs of the body and 2 waits, and with zero families
\* registered these are 3 runs that each raise the "no providers"
\* configuration error without a provider request.
C23_ConfigurationErrorsRetried ==
    /\ pc \in {"attempt_failed", "sleeping"} => Cardinality(FailedBodyRuns) = attempt_number
    /\ pc = "raised" =>
          /\ Cardinality(FailedBodyRuns) = 3
          /\ attempt_number = 3
          /\ Len(slept) = 2
    /\ (pc = "raised" /\ ~AnyRegistered) =>
          /\ \A i \in FailedBodyRuns : log[i].error = NoProviders
          /\ raised.last_attempt = NoProviders
          /\ sent = <<>>

\* no family is registered and the call has failed after its third run
C23_Witness ==
    /\ pc = "raised"
    /\ ~AnyRegistered
    /\ attempt_number = 3
    /\ Cardinality(FailedBodyRuns) = 3
    /\ slept = <<4, 4>>

\* the fallback diagnostics among the records of this call
FallbackRecords ==
    { i \in 1..Len(log) : log[i].level = "INFO" }

\* C24: while a provider request of a call that took the fallback path is
\* in flight, the call has emitted a diagnostic record that contains both
\* the requested and the substituted model identifier; a call routed to its
\* native family has emitted no such record.
C24_FallbackDiagnostic ==
    pc = "awaiting" =>
        IF NativeRegistered(request.model)
        THEN FallbackRecords = {}
        ELSE \E i \in FallbackRecords :
                /\ request.model \in log[i].mentions
                /\ frame.model \in log[i].mentions

\* C29: _build_messages(user_message, history, paper_context) returns
\* 2 + min(10, len(history)) messages: first the system prompt it generates,
\* then the last 10 (or fewer) history messages in their order with role and
\* content unchanged, last the user message with role "user"; a system-role
\* entry among those history messages is kept, so that the list then holds
\* more than one system message.
C29_BuildMessagesShape ==
    observed /= Absent =>
        LET h == observed.history
            out == observed.returned
            k == IF Len(h) < 10 THEN Len(h) ELSE 10
        IN /\ Len(out) = 2 + k
           /\ out[1] = [role |-> "system", content |-> chat_system_prompt(observed.paper_context)]
           /\ out[Len(out)] = [role |-> "user", content |-> observed.user_message]
           /\ \A j \in 1..k :
                 /\ out[1 + j].role = h[Len(h) - k + j].role
                 /\ out[1 + j].content = h[Len(h) - k + j].content
                 /\ DOMAIN out[1 + j] = {"role", "content"}
           /\ (\E j \in (Len(h) - k + 1)..Len(h) : h[j].role = "system")
                 => Cardinality(SystemPositions(out)) > 1

\* a history of 12 messages whose fifth is a system message: the first two
\* are cut off and the list holds two system messages
C29_Witness ==
    /\ observed /= Absent
    /\ Len(observed.history) = 12
    /\ observed.history[5].role = "system"
    /\ Len(observed.returned) = 12
    /\ observed.returned[2].content = "3"
    /\ SystemPositions(observed.returned) = {1, 4}

ChatHandlers == {"chat_completion", "summarize_conversation", "suggest_questions"}

\* the body of a chat endpoint's success response is built from this result
BuiltFrom(body, completion) ==
    \/ "content" \in DOMAIN body /\ body.content = completion.content
    \/ "summary" \in DOMAIN body /\ body.summary = completion.content
    \/ "questions" \in DOMAIN body /\ body.metadata.tokens = completion.tokens

\* C25: when a chat endpoint's generate_completion call ends with an
\* exception, which it does only after 3 attempts, the endpoint answers
\* with status 500 and a body that holds a detail text and nothing else;
\* it answers 200 only when the call returned a result, and then its body
\* is built from that result.
C25_ChatFailuresMappedTo500 ==
    /\ [][(http.handler \in ChatHandlers /\ http.pc = "awaiting" /\ http'.pc = "responded") =>
            IF pc = "raised"
            THEN /\ attempt_number = 3
                 /\ http'.response.status_code = 500
                 /\ DOMAIN http'.response.body = {"detail"}
            ELSE /\ pc = "returned"
                 /\ http'.response.status_code = 200
                 /\ BuiltFrom(http'.response.body, result)]_vars
    /\ []((http.handler \in ChatHandlers /\ http.pc = "responded") =>
            /\ http.response.status_code \in {200, 500}
            /\ http.response.status_code = 200 <=> http.completion /= Absent)

\* suggest_questions has answered 500 for a call whose three attempts failed
C25_Witness ==
    /\ http.handler = "suggest_questions"
    /\ http.pc = "responded"
    /\ http.completion = Absent
    /\ http.response.status_code = 500
    /\ http.response.body.detail =
          "Failed to generate questions: RetryError[<Future state=finished raised APIError>]"

\* the model identifier a family is configured with
ConfiguredModel(family) ==
    CASE family = "openai" -> settings.OPENAI_MODEL
      [] family = "anthropic" -> settings.ANTHROPIC_MODEL
      [] family = "groq" -> settings.GROQ_MODEL

\* C26: the model identifier of every provider request made for call_llm is
\* the settings value of the family that serves it.
C26_CallLlmUsesSettingsModel ==
    (http.handler = "call_llm" /\ pc = "awaiting") =>
        Last(sent).model = ConfiguredModel(frame.adapter)

\* C27: when every completion of an analyze_writing request succeeded, the
\* answer is 200 with empty grammar, style, clarity and academic lists and
\* the five default improvements, whatever the request and the completion
\* texts were; the four lists are empty at every moment of the handler.
C27_WritingResponseFixed ==
    /\ (http.handler = "analyze_writing" /\ http.pc = "responded"
                                        /\ http.completion /= Absent) =>
          http.response =
              [status_code |-> 200,
               body |-> [grammar |-> <<>>, style |-> <<>>, clarity |-> <<>>, academic |-> <<>>,
                         improvements |-> << "Review overall structure and flow",
                                             "Check all citations and references",
                                             "Ensure consistent academic tone",
                                             "Verify all claims are supported",
                                             "Proofread for grammar and clarity" >>]]
    /\ (http.handler = "analyze_writing" /\ http.suggestions /= Absent) =>
          \A kind \in {"grammar", "style", "clarity", "academic"} :
              http.suggestions[kind] = <<>>

\* all four analyses were asked for, the last completion was a JSON array
\* of strings, and the answer carries the default improvements
C27_Witness ==
    /\ http.handler = "analyze_writing"
    /\ http.pc = "responded"
    /\ http.step = 5
    /\ http.request.analysis_types = {"grammar", "style", "clarity", "academic"}
    /\ http.completion /= Absent
    /\ http.completion.content = "[\"Shorten the abstract\"]"
    /\ http.response.status_code = 200
    /\ Len(http.response.body.improvements) = 5

\* C28: the metadata of a chat_completion success response reports the
\* model identifier of the request, also when the completion result names
\* another model.
C28_MetadataModelIsRequested ==
    (http.handler = "chat_completion" /\ http.pc = "responded"
                                      /\ http.response.status_code = 200) =>
        http.response.body.metadata.model = http.request.model

\* a gpt-4 request was served by groq with its default model, and the
\* response reports gpt-4
C28_Witness ==
    /\ http.handler = "chat_completion"
    /\ http.pc = "responded"
    /\ http.response.status_code = 200
    /\ http.completion.provider = "groq"
    /\ http.completion.model = GROQ_MODEL
    /\ http.request.model = <<"g","p","t","-","4">>
    /\ http.response.body.metadata.model = <<"g","p","t","-","4">>

\* C30: an analyze_writing request whose text has fewer than 50 characters
\* is answered with status 400 and the "at least 50 characters" detail
\* without a generate_completion call; a longer text is never answered 400.
C30_ShortTextRejectedWith400 ==
    (http.handler = "analyze_writing") =>
        IF Len(http.request.text) < 50
        THEN /\ http.pc = "responded"
             /\ http.response =
                   [status_code |-> 400,
                    body |-> [detail |-> "Text must be at least 50 characters"]]
             /\ pc = "idle"
             /\ sent = <<>>
             /\ http.completion = Absent
        ELSE http.pc = "responded" => http.response.status_code /= 400

\* a text of 49 characters has been answered 400
C30_Witness ==
    /\ http.handler = "analyze_writing"
    /\ http.pc = "responded"
    /\ Len(http.request.text) = 49
    /\ http.response.status_code = 400

====
